---- MODULE Spec2Model ----
(***************************************************************************)
(* Model of src/src/client_eval_batch.cc: the Astraea evaluation client.   *)
(* One process with a main thread, a control thread (control_thread /      *)
(* do_congestion_control), a data thread (data_thread) and the signal      *)
(* handler (signal_handler), talking to the inference server over a        *)
(* length-prefixed unix socket (unix_send_message / unix_recv_message).    *)
(*                                                                         *)
(* Time is a discrete clock in units of 10 ms.  The clock stands still     *)
(* while the control thread is at the top of its loop and while it is in   *)
(* sleep_until with a target that is not in the future (sleep_until        *)
(* returns at once); the processing time of a control cycle elapses while  *)
(* a thread is blocked in unix_recv_message.                               *)
(*                                                                         *)
(* A signal handler runs on the thread the signal is delivered to; it      *)
(* ends in exit(1), so that thread runs none of its own code again.        *)
(*                                                                         *)
(* FrameSpec is a second specification, of the byte stream that            *)
(* unix_send_message writes and unix_recv_message reads.                   *)
(***************************************************************************)
EXTENDS Integers, Sequences, FiniteSets, TLC

\* ---------------------------------------------------------------- bounds
MaxCycles == 5        \* control cycles the model lets the control thread start
MaxTime == 8          \* last clock value the model reaches
MaxShutdownCycles == 2  \* control cycles started in a run with signals

MaxFrames == 2        \* messages written in a run of the framing model

\* ------------------------------------------------------ program constants
DefaultInterval == 2  \* control_interval(20ms), in clock units of 10 ms
Uint16Range == 65536  \* uint16_t len: the values 0 .. 65535

\* main registers signal_handler for SIGTERM, SIGKILL and SIGINT; SIGKILL
\* cannot be caught.  signal() blocks a signal while its own handler runs and
\* the handler never returns (exit(1)), so each signal starts at most one
\* handler, and the other signal may start a second one while the first
\* runs.  The handler does not look at which of the two it got: Signals
\* numbers them by arrival (1: the first to arrive, 2: the other).
Signals == {1, 2}

\* --id values of the command line: <<>> is "not given".
IdOptions == {<< >>, <<5>>}
\* --interval values of the command line: <<>> is "not given".
IntervalOptions == {<< >>, <<3>>}
\* --cong values of the command line.
CongOptions == {"astraea", "cubic"}

\* Flow identities the inference server may assign in its reply to START.
ServerIds == {9}

\* A payload received from the inference server, by what json::parse and
\* the accessors make of it: parses = the text is JSON; key = the one key
\* of the object ("none": the JSON is not an object or is empty);
\* typ/val = the type and value stored under that key.
Payload(parses, key, typ, val) ==
    [parses |-> parses, key |-> key, typ |-> typ, val |-> val]

Garbage == Payload(FALSE, "none", "null", 0)

\* The reply {"cwnd": 10}.
SteadyReply == Payload(TRUE, "cwnd", "int", 10)

\* Replies the server may give to ALIVE.
ActionReplies ==
    { SteadyReply,                           \* {"cwnd": 10}
      Payload(TRUE, "cwnd", "int", -1),      \* {"cwnd": -1}
      Payload(TRUE, "flow_id", "int", 10),   \* {"flow_id": 10}: no cwnd
      Garbage }                               \* not JSON

\* What the world around the process does in one run: whether the decision
\* process may take whole clock units to answer (otherwise it answers
\* within the clock's resolution), whether termination signals arrive, and
\* whether the primary connection may break.  A run has one of the three.
Environments ==
    { [slow |-> TRUE, signals |-> FALSE, breaks |-> FALSE],
      [slow |-> FALSE, signals |-> TRUE, breaks |-> FALSE],
      [slow |-> FALSE, signals |-> FALSE, breaks |-> TRUE] }

\* How sock.write reports a write on a broken connection to data_thread
\* (SIGPIPE is ignored, so the write call itself fails): by an exception or
\* by returning.
WriteFailures == {"throws", "returns"}

\* Replies the server may give to START.
HandshakeReplies ==
    { Payload(TRUE, "flow_id", "int", i) : i \in ServerIds } \cup {Garbage}

\* Byte lengths of message.dump() in the framing model: a START message
\* (22 bytes), lengths around one header byte's range, and lengths around
\* and beyond the range of the 2-byte header.
FrameLengths ==
    {22, 255, 256, Uint16Range - 1, Uint16Range, Uint16Range + 1,
     Uint16Range + 22, 2 * Uint16Range}

VARIABLES
    env,               \* the environment of this run, one of Environments
    opt,               \* command line: [cong, id, interval, log]
    main_pc,           \* position of main
    proc,              \* "running", "exit" (exit(1)), "abort" (std::terminate)
    use_RL,            \* main's local use_RL
    control_interval,  \* main's local control_interval
    global_flow_id,    \* global_flow_id
    inference_server,  \* inference_server != nullptr
    ipc_connected,     \* inference_server->connect() has returned
    send_traffic,      \* std::atomic<bool> send_traffic
    perf_log,          \* "null", "open", "closed", or "closed_in_write":
                       \* closed while the control thread writes a line
    log_file,          \* lines of the performance log file
    sent,              \* messages written to the IPC socket, in order
    srv_read,          \* how many of them the server has read
    inbox,             \* replies written by the server, not yet read
    ct_pc,             \* position of the control thread
    when_started,      \* control_thread's when_started
    target_time,       \* control_thread's target_time
    now,               \* the clock
    dt_pc,             \* position of the data thread
    broken,            \* the primary connection is broken
    f_pc,              \* framing model: "off", "run" or "lost"
    f_wire,            \* framing model: the frames written, in order
    f_rcv,             \* framing model: what unix_recv_message returned
    f_left,            \* framing model: payload bytes left unread in the stream
    hpc,               \* position of each signal's handler
    hthread,           \* the thread each signal's handler runs on
    last_cwnd,         \* <<>> or <<v>>: the last value given to set_tcp_cwnd
    \* history variables (observers, read by no action's guard)
    cycle,             \* control cycles started
    cycle_start,       \* clock at the start of the current cycle
    on_time,           \* every finished cycle took less than the interval
    applied,           \* cycles in which set_tcp_cwnd was called
    malformed,         \* cycles whose reply was no well-formed action
    consumed,          \* replies read by do_congestion_control
    last_for,          \* the ALIVE (by number) the last consumed reply answers
    all_ten,           \* every reply consumed so far was {"cwnd": 10}
    handshake,         \* <<>> or <<[id, len]>>: the id of the START reply and
                       \* Len(sent) when it was read
    open_at_signal     \* the IPC connection was open when the first signal came

vars == << env, opt, main_pc, proc, use_RL, control_interval, global_flow_id,
           inference_server, ipc_connected, send_traffic, perf_log, log_file,
           sent, srv_read, inbox, ct_pc, when_started, target_time, now,
           dt_pc, broken, f_pc, f_wire, f_rcv, f_left, hpc, hthread, last_cwnd, cycle, cycle_start, on_time,
           applied, malformed, consumed, last_for, all_ten, handshake,
           open_at_signal >>

cfgVars == << env, opt, use_RL, control_interval >>
ipcVars == << inference_server, ipc_connected >>
chanVars == << sent, srv_read, inbox >>
logVars == << perf_log, log_file >>
clockVars == << when_started, target_time, now >>
sigVars == << hpc, hthread >>
connVars == << broken >>
frameVars == << f_pc, f_wire, f_rcv, f_left >>
timingObs == << cycle, cycle_start, on_time >>
replyObs == << applied, malformed, consumed, last_for, all_ten,
              open_at_signal >>

Running == proc = "running"

\* As Interrupted, but the handler runs on a thread of its own and
\* interrupts none of the program's threads.
\*
\* A signal handler runs on one of the process's threads, which it
\* interrupts.  signal_handler never returns (it ends in exit(1)), so the
\* thread it interrupted never runs its own code again.
Interrupted_never(t) == FALSE

Interrupted(t) == \E s \in Signals : hthread[s] = t

Runs(t) == Running /\ ~Interrupted(t)

\* The threads a signal can be delivered to: main, and the control and
\* data threads from their creation until their function returns.
Threads ==
    {"main"}
    \cup (IF ct_pc \in {"notstarted", "done"} THEN {} ELSE {"ct"})
    \cup (IF dt_pc \in {"notstarted", "done"} THEN {} ELSE {"dt"})

\* The handler of signal s runs unless a later signal's handler has
\* interrupted it on its own thread.
HandlerRuns(s) ==
    Running /\ \A r \in Signals : r > s => hthread[r] # hthread[s]

\* ----------------------------------------------------------------- codec

\* unix_send_message: the message written to the socket (flow_id is the
\* global at the time of the call; "state" only when it is not empty).
MessageOf(type, has_state) ==
    [type |-> type, flow_id |-> global_flow_id, state |-> has_state]

\* unix_send_message: writes only when the socket pointer is set.
unix_send_message(type, has_state) ==
    IF inference_server THEN Append(sent, MessageOf(type, has_state)) ELSE sent

\* As ParseAction, but a missing or non-numeric "cwnd" reads as 0 instead of
\* throwing (value("cwnd", 0) in place of at("cwnd")).
ParseAction_default(p) ==
    IF p.parses
    THEN [ok |-> TRUE,
          cwnd |-> IF p.key = "cwnd" /\ p.typ = "int" THEN p.val ELSE 0]
    ELSE [ok |-> FALSE, cwnd |-> 0]

\* cwnd = json::parse(data).at("cwnd") inside try/catch: parse_error when
\* the text is not JSON, out_of_range / type_error when there is no "cwnd"
\* key, type_error when the value is no number.
ParseAction(p) ==
    IF p.parses /\ p.key = "cwnd" /\ p.typ = "int"
    THEN [ok |-> TRUE, cwnd |-> p.val]
    ELSE [ok |-> FALSE, cwnd |-> 0]

\* global_flow_id = json::parse(data)["flow_id"]: throws (uncaught) when the
\* text is not JSON or holds no integer under "flow_id".
ParseHandshake(p) ==
    IF p.parses /\ p.key = "flow_id" /\ p.typ = "int"
    THEN [ok |-> TRUE, flow_id |-> p.val]
    ELSE [ok |-> FALSE, flow_id |-> 0]

\* The performance log's header line and a data line (its last field is the
\* assigned cwnd; the other fields are the snapshot's).  whole: the line
\* is complete, up to endl.
HeaderLine == [header |-> TRUE, cwnd |-> 0, whole |-> TRUE]
DataLine(cwnd) == [header |-> FALSE, cwnd |-> cwnd, whole |-> TRUE]

\* A data line cut short, its last field missing.
TornLine == [header |-> FALSE, cwnd |-> 0, whole |-> FALSE]

\* ------------------------------------------------------------------ Init
\* The state of the program when main starts.
ProgramStart ==
    /\ main_pc = "flow_id"
    /\ proc = "running"
    /\ use_RL = FALSE
    /\ control_interval = DefaultInterval
    /\ global_flow_id = 0
    /\ inference_server = FALSE
    /\ ipc_connected = FALSE
    /\ send_traffic = TRUE
    /\ perf_log = "null"
    /\ log_file = << >>
    /\ sent = << >>
    /\ srv_read = 0
    /\ inbox = << >>
    /\ ct_pc = "notstarted"
    /\ when_started = 0
    /\ target_time = 0
    /\ now = 0
    /\ dt_pc = "notstarted"
    /\ broken = FALSE
    /\ hpc = [s \in Signals |-> "idle"]
    /\ hthread = [s \in Signals |-> "none"]
    /\ last_cwnd = << >>
    /\ cycle = 0
    /\ cycle_start = 0
    /\ on_time = TRUE
    /\ applied = {}
    /\ malformed = {}
    /\ consumed = 0
    /\ last_for = 0
    /\ all_ten = TRUE
    /\ handshake = << >>
    /\ open_at_signal = FALSE

Init ==
    /\ env \in Environments
    /\ opt \in [cong : CongOptions, id : IdOptions,
                interval : IntervalOptions, log : BOOLEAN]
    /\ ProgramStart
    /\ f_pc = "off"
    /\ f_wire = << >>
    /\ f_rcv = << >>
    /\ f_left = 0

\* ------------------------------------------------------------------ main

\* main, "assign flow_id": a given --id becomes global_flow_id.
MainAssignFlowId ==
    /\ Runs("main") /\ main_pc = "flow_id"
    /\ global_flow_id' = IF opt.id # << >> THEN opt.id[1] ELSE global_flow_id
    /\ main_pc' = "ipc"
    /\ UNCHANGED << cfgVars, connVars, frameVars, proc, ipcVars, send_traffic, logVars, chanVars,
                    ct_pc, clockVars, dt_pc, sigVars, last_cwnd, timingObs,
                    replyObs, handshake >>

\* main, cong_ctl == "astraea": the interval option is read and the IPC
\* socket is created (not yet connected).  Any other algorithm skips the
\* whole block.
MainCreateIpc ==
    /\ Runs("main") /\ main_pc = "ipc"
    /\ IF opt.cong = "astraea"
       THEN /\ control_interval' = IF opt.interval # << >>
                                   THEN opt.interval[1] ELSE control_interval
            /\ inference_server' = TRUE
            /\ main_pc' = "connect"
       ELSE /\ UNCHANGED << control_interval, inference_server >>
            /\ main_pc' = "setup"
    /\ UNCHANGED << env, opt, connVars, frameVars, use_RL, proc, global_flow_id, ipc_connected,
                    send_traffic, logVars, chanVars, ct_pc, clockVars, dt_pc,
                    sigVars, last_cwnd, timingObs, replyObs, handshake >>

\* main: inference_server->connect("/tmp/astraea.sock").
MainConnectIpc ==
    /\ Runs("main") /\ main_pc = "connect"
    /\ ipc_connected' = TRUE
    /\ main_pc' = "start"
    /\ UNCHANGED << cfgVars, connVars, frameVars, proc, global_flow_id, inference_server,
                    send_traffic, logVars, chanVars, ct_pc, clockVars, dt_pc,
                    sigVars, last_cwnd, timingObs, replyObs, handshake >>

\* main: unix_send_message(inference_server, START, init_message), the
\* state being empty.
MainSendStart ==
    /\ Runs("main") /\ main_pc = "start"
    /\ sent' = unix_send_message("START", FALSE)
    /\ main_pc' = "handshake"
    /\ UNCHANGED << cfgVars, connVars, frameVars, proc, global_flow_id, ipcVars, send_traffic,
                    logVars, srv_read, inbox, ct_pc, clockVars, dt_pc, sigVars,
                    last_cwnd, timingObs, replyObs, handshake >>

\* As FlowIdFromReply, but an --id given on the command line is kept.
FlowIdFromReply_keepGiven(reply) ==
    IF opt.id # << >> THEN opt.id[1] ELSE reply.flow_id

\* The flow identity main stores after the handshake.
FlowIdFromReply(reply) == reply.flow_id

\* As MainHandshake, but main does not wait for the reply to START: it
\* sets use_RL and goes on.
MainHandshake_noWait ==
    /\ Runs("main") /\ main_pc = "handshake"
    /\ use_RL' = TRUE
    /\ main_pc' = "setup"
    /\ UNCHANGED << env, opt, connVars, frameVars, control_interval, proc,
                    global_flow_id, ipcVars, send_traffic, logVars, chanVars,
                    ct_pc, clockVars, dt_pc, sigVars, last_cwnd, timingObs,
                    replyObs, handshake >>

\* main: the blocking unix_recv_message, json::parse and
\* global_flow_id = reply["flow_id"]; use_RL = true.  A reply that does not
\* parse throws out of main: std::terminate.
MainHandshake ==
    /\ Runs("main") /\ main_pc = "handshake"
    /\ inbox # << >>
    /\ LET reply == ParseHandshake(Head(inbox).payload) IN
       IF reply.ok
       THEN /\ global_flow_id' = FlowIdFromReply(reply)
            /\ use_RL' = TRUE
            /\ handshake' = << [id |-> reply.flow_id, len |-> Len(sent)] >>
            /\ main_pc' = "setup"
            /\ proc' = proc
       ELSE /\ proc' = "abort"
            /\ UNCHANGED << global_flow_id, use_RL, handshake, main_pc >>
    /\ inbox' = Tail(inbox)
    /\ UNCHANGED << env, opt, connVars, frameVars, control_interval, ipcVars, send_traffic, logVars,
                    sent, srv_read, ct_pc, clockVars, dt_pc, sigVars, last_cwnd,
                    timingObs, replyObs >>

\* main: the TCP flow is connected and configured, and the performance log
\* is opened and its header written when --perf-log is given.
MainSetup ==
    /\ Runs("main") /\ main_pc = "setup"
    /\ IF opt.log
       THEN /\ perf_log' = "open"
            /\ log_file' = << HeaderLine >>
       ELSE UNCHANGED logVars
    /\ main_pc' = "start_ct"
    /\ UNCHANGED << cfgVars, connVars, frameVars, proc, global_flow_id, ipcVars, send_traffic,
                    chanVars, ct_pc, clockVars, dt_pc, sigVars, last_cwnd,
                    timingObs, replyObs, handshake >>

\* As StartsControlThread, but without the guard.
StartsControlThread_always == TRUE

\* main: the control thread is created only under
\* use_RL and inference_server != nullptr.
StartsControlThread == use_RL /\ inference_server

MainStartControl ==
    /\ Runs("main") /\ main_pc = "start_ct"
    /\ ct_pc' = IF StartsControlThread THEN "init" ELSE ct_pc
    /\ main_pc' = "start_dt"
    /\ UNCHANGED << cfgVars, connVars, frameVars, proc, global_flow_id, ipcVars, send_traffic,
                    logVars, chanVars, clockVars, dt_pc, sigVars, last_cwnd,
                    timingObs, replyObs, handshake >>

\* As MainStartData, but main sets send_traffic again before it starts the
\* data thread.
MainStartData_rearm ==
    /\ Runs("main") /\ main_pc = "start_dt"
    /\ dt_pc' = "check"
    /\ send_traffic' = TRUE
    /\ main_pc' = "join_dt"
    /\ UNCHANGED << cfgVars, connVars, frameVars, proc, global_flow_id, ipcVars, logVars,
                    chanVars, ct_pc, clockVars, sigVars, last_cwnd, timingObs,
                    replyObs, handshake >>

\* main: thread dt(data_thread, ...).
MainStartData ==
    /\ Runs("main") /\ main_pc = "start_dt"
    /\ dt_pc' = "check"
    /\ main_pc' = "join_dt"
    /\ UNCHANGED << cfgVars, connVars, frameVars, proc, global_flow_id, ipcVars, send_traffic,
                    logVars, chanVars, ct_pc, clockVars, sigVars, last_cwnd,
                    timingObs, replyObs, handshake >>

\* main: dt.join() returns when the data thread has finished, and main
\* calls ct.join().  On a thread object that was never given a thread,
\* join() throws std::system_error, which nothing catches: std::terminate.
\* Otherwise main blocks in ct.join() until the control thread has finished.
\* The data thread finishes only after a handler has stored false in
\* send_traffic, and the thread that handler runs on never runs again: when
\* the control and data threads have both finished, that thread is main.
\* ct.join() never returns, and main never reaches its end.
MainJoinData ==
    /\ Runs("main") /\ main_pc = "join_dt"
    /\ dt_pc = "done"
    /\ main_pc' = "join_ct"
    /\ proc' = IF ct_pc = "notstarted" THEN "abort" ELSE proc
    /\ UNCHANGED << cfgVars, connVars, frameVars, global_flow_id, ipcVars, send_traffic,
                    logVars, chanVars, ct_pc, clockVars, dt_pc, sigVars,
                    last_cwnd, timingObs, replyObs, handshake >>

\* -------------------------------------------------------- control thread

\* control_thread: when_started = now(); target_time = when_started + interval.
ControlInit ==
    /\ Runs("ct") /\ ct_pc = "init"
    /\ when_started' = now
    /\ target_time' = now + control_interval
    /\ ct_pc' = "check"
    /\ UNCHANGED << cfgVars, connVars, frameVars, main_pc, proc, global_flow_id, ipcVars,
                    send_traffic, logVars, chanVars, now, dt_pc, sigVars,
                    last_cwnd, timingObs, replyObs, handshake >>

\* The control cycles the model follows in this run.
CycleBound == IF env.slow THEN MaxCycles ELSE MaxShutdownCycles

\* control_thread: while (send_traffic.load()).  A cycle starts when the
\* flag is read true; the thread leaves the loop when it is read false.
ControlCheck ==
    /\ Runs("ct") /\ ct_pc = "check"
    /\ IF send_traffic
       THEN /\ cycle < CycleBound
            /\ ct_pc' = "send"
            /\ cycle' = cycle + 1
            /\ cycle_start' = now
       ELSE /\ ct_pc' = "done"
            /\ UNCHANGED << cycle, cycle_start >>
    /\ UNCHANGED << cfgVars, connVars, frameVars, main_pc, proc, global_flow_id, ipcVars,
                    send_traffic, logVars, chanVars, clockVars, dt_pc, sigVars,
                    last_cwnd, on_time, replyObs, handshake >>

\* As ControlSendAlive, but the function returns without waiting for the
\* reply.
ControlSendAlive_noWait ==
    /\ Runs("ct") /\ ct_pc = "send"
    /\ sent' = unix_send_message("ALIVE", TRUE)
    /\ ct_pc' = "sleep"
    /\ UNCHANGED << cfgVars, connVars, frameVars, main_pc, proc, global_flow_id, ipcVars,
                    send_traffic, logVars, srv_read, inbox, clockVars, dt_pc,
                    sigVars, last_cwnd, timingObs, replyObs, handshake >>

\* do_congestion_control: the snapshot is taken and sent as ALIVE.
ControlSendAlive ==
    /\ Runs("ct") /\ ct_pc = "send"
    /\ sent' = unix_send_message("ALIVE", TRUE)
    /\ ct_pc' = "recv"
    /\ UNCHANGED << cfgVars, connVars, frameVars, main_pc, proc, global_flow_id, ipcVars,
                    send_traffic, logVars, srv_read, inbox, clockVars, dt_pc,
                    sigVars, last_cwnd, timingObs, replyObs, handshake >>

\* A reply that is an Action: JSON with an integer under "cwnd".
WellFormed(p) == p.parses /\ p.key = "cwnd" /\ p.typ = "int"

\* The history of a finished cycle, taken when the thread reaches
\* sleep_until: whether it, and every cycle before it, took less than the
\* interval.
CycleEnds ==
    on_time' = (on_time /\ now - cycle_start < control_interval)

\* do_congestion_control: the blocking unix_recv_message, the parse and,
\* when it succeeds, sock.set_tcp_cwnd(cwnd).  When it throws, the function
\* returns and the thread goes on to sleep_until.
ControlRecvApply ==
    /\ Runs("ct") /\ ct_pc = "recv"
    /\ inbox # << >>
    /\ LET m == Head(inbox)
           a == ParseAction(m.payload)
       IN  /\ inbox' = Tail(inbox)
           /\ consumed' = consumed + 1
           /\ last_for' = m.for
           /\ all_ten' = (all_ten /\ m.payload = SteadyReply)
           /\ malformed' = IF WellFormed(m.payload) THEN malformed
                           ELSE malformed \cup {cycle}
           /\ IF a.ok
              THEN /\ last_cwnd' = << a.cwnd >>
                   /\ applied' = applied \cup {cycle}
                   /\ ct_pc' = "log"
                   /\ UNCHANGED on_time
              ELSE /\ ct_pc' = "sleep"
                   /\ CycleEnds
                   /\ UNCHANGED << last_cwnd, applied >>
    /\ UNCHANGED << cfgVars, connVars, frameVars, main_pc, proc, global_flow_id, ipcVars,
                    send_traffic, logVars, sent, srv_read, clockVars, dt_pc,
                    sigVars, cycle, cycle_start, handshake, open_at_signal >>

\* As ControlLogBegin, but the test is the wrong way round: no line is
\* written when there is a log.
ControlLogBegin_skip ==
    /\ Runs("ct") /\ ct_pc = "log"
    /\ ct_pc' = "sleep"
    /\ CycleEnds
    /\ UNCHANGED << cfgVars, connVars, frameVars, main_pc, proc,
                    global_flow_id, ipcVars, send_traffic, logVars, chanVars,
                    clockVars, dt_pc, sigVars, last_cwnd, cycle, cycle_start,
                    replyObs, handshake >>

\* do_congestion_control: if (perf_log).  The test is of the pointer, which
\* stays set after close(); when it is set the thread enters the statement
\* that writes the line.
ControlLogBegin ==
    /\ Runs("ct") /\ ct_pc = "log"
    /\ IF perf_log = "null"
       THEN ct_pc' = "sleep" /\ CycleEnds
       ELSE ct_pc' = "logging" /\ UNCHANGED on_time
    /\ UNCHANGED << cfgVars, connVars, frameVars, main_pc, proc,
                    global_flow_id, ipcVars, send_traffic, logVars, chanVars,
                    clockVars, dt_pc, sigVars, last_cwnd, cycle, cycle_start,
                    replyObs, handshake >>

\* What the statement *perf_log << ... << cwnd << endl leaves in the file.
\* On the open stream: the line.  On a stream closed before the statement:
\* nothing.  On a stream closed while the statement runs, the two threads
\* use the stream at once, unsynchronised: the line, a part of it, or
\* nothing.
LinesWritten(cwnd) ==
    CASE perf_log = "open" -> { << DataLine(cwnd) >> }
      [] perf_log = "closed_in_write" ->
             { << DataLine(cwnd) >>, << TornLine >>, << >> }
      [] OTHER -> { << >> }

\* do_congestion_control: the statement that writes the line ends.
ControlLogWrite ==
    /\ Runs("ct") /\ ct_pc = "logging"
    /\ \E lines \in LinesWritten(last_cwnd[1]) : log_file' = log_file \o lines
    /\ perf_log' = IF perf_log = "closed_in_write" THEN "closed" ELSE perf_log
    /\ ct_pc' = "sleep"
    /\ CycleEnds
    /\ UNCHANGED << cfgVars, connVars, frameVars, main_pc, proc,
                    global_flow_id, ipcVars, send_traffic, chanVars, clockVars,
                    dt_pc, sigVars, last_cwnd, cycle, cycle_start, replyObs,
                    handshake >>

\* target_time += interval.
NextTarget(target, interval) == target + interval

\* sleep_until(target) has returned: the clock has reached the target.
SleepOver_noSleep(clock, target) == TRUE

SleepOver(clock, target) == clock >= target

\* control_thread: sleep_until(target_time) returns once the clock has
\* reached the target; then target_time += interval.
ControlSleep ==
    /\ Runs("ct") /\ ct_pc = "sleep"
    /\ SleepOver(now, target_time)
    /\ target_time' = NextTarget(target_time, control_interval)
    /\ ct_pc' = "check"
    /\ UNCHANGED << cfgVars, connVars, frameVars, main_pc, proc, global_flow_id, ipcVars,
                    send_traffic, logVars, chanVars, when_started, now, dt_pc,
                    sigVars, last_cwnd, timingObs, replyObs, handshake >>

\* The clock advances while main or the control thread is blocked in
\* unix_recv_message with no reply to read yet, and while the control thread
\* sleeps towards a target in the future.
\* A signal handler lasts 100 us, a hundredth of a clock unit: the clock
\* does not advance once a handler has started.
Tick ==
    /\ Running
    /\ now < MaxTime
    /\ \A s \in Signals : hpc[s] = "idle"
    /\ \/ main_pc = "handshake" /\ inbox = << >> /\ env.slow
       \/ ct_pc = "recv" /\ inbox = << >> /\ env.slow
       \/ ct_pc = "sleep" /\ ~SleepOver(now, target_time)
    /\ now' = now + 1
    /\ UNCHANGED << cfgVars, connVars, frameVars, main_pc, proc, global_flow_id, ipcVars,
                    send_traffic, logVars, chanVars, ct_pc, when_started,
                    target_time, dt_pc, sigVars, last_cwnd, timingObs, replyObs,
                    handshake >>

\* ----------------------------------------------------------- data thread

\* data_thread: while (send_traffic.load()).
DataCheck ==
    /\ Runs("dt") /\ dt_pc = "check"
    /\ dt_pc' = IF send_traffic THEN "write" ELSE "done"
    /\ UNCHANGED << cfgVars, connVars, frameVars, main_pc, proc, global_flow_id, ipcVars,
                    send_traffic, logVars, chanVars, ct_pc, clockVars, sigVars,
                    last_cwnd, timingObs, replyObs, handshake >>

\* As DataWrite, but a failed write ends the loop by storing false in
\* send_traffic.
DataWrite_flipsFlag ==
    /\ Runs("dt") /\ dt_pc = "write"
    /\ \E fails \in (IF broken THEN {TRUE}
                     ELSE IF env.breaks THEN BOOLEAN ELSE {FALSE}) :
          /\ broken' = fails
          /\ send_traffic' = IF fails THEN FALSE ELSE send_traffic
          /\ dt_pc' = "check"
    /\ UNCHANGED << cfgVars, frameVars, main_pc, proc, global_flow_id,
                    ipcVars, logVars, chanVars, ct_pc, clockVars, sigVars,
                    last_cwnd, timingObs, replyObs, handshake >>

\* data_thread: sock.write(data, true).  The write succeeds, or it fails
\* because the connection is broken, and always does once it is.  Nothing
\* in data_thread catches an exception (it leaves the thread function:
\* std::terminate) or looks at what write returns (the loop goes on).
DataWrite ==
    /\ Runs("dt") /\ dt_pc = "write"
    /\ \E fails \in (IF broken THEN {TRUE}
                     ELSE IF env.breaks THEN BOOLEAN ELSE {FALSE}) :
          /\ broken' = fails
          /\ IF fails
             THEN \E how \in WriteFailures :
                      IF how = "throws"
                      THEN proc' = "abort" /\ dt_pc' = dt_pc
                      ELSE proc' = proc /\ dt_pc' = "check"
             ELSE proc' = proc /\ dt_pc' = "check"
    /\ UNCHANGED << cfgVars, frameVars, main_pc, global_flow_id, ipcVars,
                    send_traffic, logVars, chanVars, ct_pc, clockVars, sigVars,
                    last_cwnd, timingObs, replyObs, handshake >>

\* -------------------------------------------------------- signal handler

\* signal_handler: the signal arrives and send_traffic = false.
SignalFlag(s) ==
    /\ Running /\ hpc[s] = "idle"
    /\ env.signals
    /\ \A r \in Signals : r < s => hpc[r] # "idle"
    /\ send_traffic' = FALSE
    /\ hpc' = [hpc EXCEPT ![s] = "close"]
    /\ \E t \in Threads : hthread' = [hthread EXCEPT ![s] = t]
    /\ open_at_signal' = IF \A r \in Signals : hpc[r] = "idle"
                         THEN ipc_connected ELSE open_at_signal
    /\ UNCHANGED << cfgVars, connVars, frameVars, main_pc, proc, global_flow_id, ipcVars, logVars,
                    chanVars, ct_pc, clockVars, dt_pc, last_cwnd, timingObs,
                    applied, malformed, consumed, last_for, all_ten,
                    handshake >>

\* signal_handler: if (perf_log) perf_log->close().  close() on a stream
\* that is closed already changes nothing in the file.
SignalCloseLog(s) ==
    /\ HandlerRuns(s) /\ hpc[s] = "close"
    /\ perf_log' = IF perf_log = "open"
                   THEN (IF ct_pc = "logging" THEN "closed_in_write"
                         ELSE "closed")
                   ELSE perf_log
    /\ hpc' = [hpc EXCEPT ![s] = "end"]
    /\ UNCHANGED << cfgVars, connVars, frameVars, main_pc, proc, global_flow_id, ipcVars,
                    send_traffic, log_file, chanVars, ct_pc, clockVars, dt_pc,
                    hthread, last_cwnd, timingObs, replyObs, handshake >>

\* signal_handler: if (inference_server) unix_send_message(END).  On a
\* socket that is not connected yet the write fails and throws out of the
\* handler: std::terminate.
SignalSendEnd(s) ==
    /\ HandlerRuns(s) /\ hpc[s] = "end"
    /\ IF inference_server /\ ~ipc_connected
       THEN /\ proc' = "abort"
            /\ UNCHANGED << sent, hpc >>
       ELSE /\ sent' = unix_send_message("END", FALSE)
            /\ hpc' = [hpc EXCEPT ![s] = "grace"]
            /\ proc' = proc
    /\ UNCHANGED << cfgVars, connVars, frameVars, main_pc, global_flow_id, ipcVars, send_traffic,
                    logVars, srv_read, inbox, ct_pc, clockVars, dt_pc,
                    hthread, last_cwnd, timingObs, replyObs, handshake >>

\* signal_handler: sleep_for(100us); exit(1).
SignalExit(s) ==
    /\ HandlerRuns(s) /\ hpc[s] = "grace"
    /\ proc' = "exit"
    /\ hpc' = [hpc EXCEPT ![s] = "exited"]
    /\ UNCHANGED << cfgVars, connVars, frameVars, main_pc, global_flow_id, ipcVars, send_traffic,
                    logVars, chanVars, ct_pc, clockVars, dt_pc, hthread,
                    last_cwnd, timingObs, replyObs, handshake >>

\* ------------------------------------------------------ inference server

\* The number of ALIVE messages among the first n sent.
RECURSIVE AliveUpTo(_)
AliveUpTo(n) ==
    IF n = 0 THEN 0
    ELSE AliveUpTo(n - 1) + (IF sent[n].type = "ALIVE" THEN 1 ELSE 0)

\* The messages the decision process answers, by their place in sent.
Requests == { i \in 1..Len(sent) : sent[i].type \in {"START", "ALIVE"} }

\* The decision process reads up to its next request, passing over END
\* messages, which it does not answer: it answers START with a flow
\* identity and ALIVE with an action.
ServerStep ==
    /\ Running
    /\ \E i \in Requests :
          /\ i > srv_read
          /\ \A j \in Requests : j > srv_read => i <= j
          /\ srv_read' = i
          /\ IF sent[i].type = "START"
             THEN \E p \in HandshakeReplies :
                      inbox' = Append(inbox, [payload |-> p, for |-> 0])
             ELSE \E p \in ActionReplies :
                      inbox' = Append(inbox, [payload |-> p,
                                              for |-> AliveUpTo(i)])
    /\ UNCHANGED << cfgVars, connVars, frameVars, main_pc, proc, global_flow_id, ipcVars,
                    send_traffic, logVars, sent, ct_pc, clockVars, dt_pc, sigVars,
                    last_cwnd, timingObs, replyObs, handshake >>

\* ------------------------------------------------------------------ Next
Next ==
    \/ MainAssignFlowId
    \/ MainCreateIpc
    \/ MainConnectIpc
    \/ MainSendStart
    \/ MainHandshake
    \/ MainSetup
    \/ MainStartControl
    \/ MainStartData
    \/ MainJoinData
    \/ ControlInit
    \/ ControlCheck
    \/ ControlSendAlive
    \/ ControlRecvApply
    \/ ControlLogBegin
    \/ ControlLogWrite
    \/ ControlSleep
    \/ Tick
    \/ DataCheck
    \/ DataWrite
    \/ \E s \in Signals : SignalFlag(s)
    \/ \E s \in Signals : SignalCloseLog(s)
    \/ \E s \in Signals : SignalSendEnd(s)
    \/ \E s \in Signals : SignalExit(s)
    \/ ServerStep

Spec == Init /\ [][Next]_vars

\* --------------------------------------------------------------- framing
\* The byte stream of the IPC socket, one direction: unix_send_message
\* writes frames and unix_recv_message reads them.  A frame is the 2 header
\* bytes followed by len payload bytes.

progVars == << env, opt, main_pc, proc, use_RL, control_interval,
               global_flow_id, inference_server, ipc_connected, send_traffic,
               perf_log, log_file, sent, srv_read, inbox, ct_pc, when_started,
               target_time, now, dt_pc, broken, hpc, hthread, last_cwnd,
               cycle, cycle_start, on_time, applied, malformed, consumed,
               last_for, all_ten, handshake, open_at_signal >>

\* put_field(len) for a uint16_t: its two bytes, high byte first.
put_field(v) == << v \div 256, v % 256 >>

\* get_uint16(header.data()): the value of two bytes, high byte first.
get_uint16(h) == h[1] * 256 + h[2]

\* uint16_t len = message.dump().length(): the length, a size_t, is
\* converted to 16 bits.
Len16(n) == n % Uint16Range

\* ipc_sock->write(put_field(len) + message.dump()), for a message whose
\* dump is n bytes long.
FrameOf(n) == [header |-> put_field(Len16(n)), len |-> n]

FrameInit ==
    /\ env = [slow |-> FALSE, signals |-> FALSE, breaks |-> FALSE]
    /\ opt = [cong |-> "astraea", id |-> << >>, interval |-> << >>,
              log |-> FALSE]
    /\ ProgramStart
    /\ f_pc = "run"
    /\ f_wire = << >>
    /\ f_rcv = << >>
    /\ f_left = 0

\* unix_send_message writes one message.
FrameSend ==
    /\ f_pc = "run"
    /\ Len(f_wire) < MaxFrames
    /\ \E n \in FrameLengths : f_wire' = Append(f_wire, FrameOf(n))
    /\ UNCHANGED << progVars, f_pc, f_rcv, f_left >>

\* unix_recv_message at a frame's first byte: read_exactly(2), get_uint16,
\* read_exactly(data_len).  The payload bytes it does not read stay in the
\* stream.
FrameRecv ==
    /\ f_pc = "run"
    /\ f_left = 0
    /\ Len(f_rcv) < Len(f_wire)
    /\ LET frame == f_wire[Len(f_rcv) + 1]
           data_len == get_uint16(frame.header)
       IN  /\ f_rcv' = Append(f_rcv, data_len)
           /\ f_left' = frame.len - data_len
    /\ UNCHANGED << progVars, f_pc, f_wire >>

\* unix_recv_message inside a payload: read_exactly(2) takes payload bytes
\* for the header, and the reader is off the message boundaries.
FrameRecvInside ==
    /\ f_pc = "run"
    /\ f_left > 0
    /\ f_pc' = "lost"
    /\ UNCHANGED << progVars, f_wire, f_rcv, f_left >>

FrameNext ==
    \/ FrameSend
    \/ FrameRecv
    \/ FrameRecvInside

FrameSpec == FrameInit /\ [][FrameNext]_vars

\* ---------------------------------------------------------------- claims

NumOf(type) == Cardinality({ i \in 1..Len(sent) : sent[i].type = type })

NoRL == opt.cong # "astraea"

\* C1: as long as every finished cycle took less than the interval, the
\* k-th cycle (k = 0, 1, ...) starts exactly at when_started + k * interval,
\* when_started being the start of the first cycle.
C1_CadenceNoDrift ==
    (cycle >= 1 /\ on_time) =>
        cycle_start = when_started + (cycle - 1) * control_interval

\* C1 witness: the control thread started late, its third cycle started on
\* the grid and has been waiting one clock unit for its reply.
C1_Witness ==
    /\ when_started = 1 /\ on_time /\ cycle = 3 /\ ct_pc = "recv"
    /\ cycle_start = when_started + 2 * control_interval
    /\ now = cycle_start + 1

\* C2: a sleep_until that returns without waiting (its target lies in the
\* past, so the next cycle starts at once) only follows a cycle that itself
\* took the whole interval or longer: after an overrun one cycle starts at
\* once, and no later one does.
C2_NoCatchUpBurst ==
    [][ (ct_pc = "sleep" /\ ct_pc' = "check" /\ target_time < now)
          => (now - cycle_start >= control_interval) ]_vars

\* C3: a reply that is no well-formed action is never applied and does not
\* end the loop or the process, every other reply is applied, and the step
\* that reads a malformed reply leaves the last applied window as it was and
\* goes on to sleep_until.
C3_MalformedContained ==
    /\ [](/\ applied \cap malformed = {}
          /\ applied \cup malformed = 1..consumed
          /\ (ct_pc = "done" => ~send_traffic))
    /\ [][ (ct_pc = "recv" /\ ct_pc' # "recv"
              /\ ~WellFormed(Head(inbox).payload))
             => (/\ ct_pc' = "sleep"
                 /\ last_cwnd' = last_cwnd
                 /\ applied' = applied
                 /\ proc' = "running") ]_vars

\* C3 witness: five cycles, the third reply malformed: set_tcp_cwnd was
\* called in cycles 1, 2, 4 and 5 and not in 3.
C3_Witness ==
    /\ malformed = {3}
    /\ applied = {1, 2, 4, 5}

\* C4: when the process has ended by a signal that came with the IPC
\* connection open, exactly one END has been sent.
C4_ExactlyOneEnd ==
    (proc = "exit" /\ open_at_signal) => NumOf("END") = 1

\* C5: when the process has ended by a signal, the data loop has left its
\* while loop, and so has the control loop unless it still waits for a
\* reply that has not come.
C5_LoopsLeave ==
    proc = "exit" =>
        /\ dt_pc \in {"notstarted", "done"}
        /\ \/ ct_pc \in {"notstarted", "done"}
           \/ ct_pc = "recv" /\ inbox = << >>

\* C6: the ALIVE messages sent exceed the replies consumed by 0 or 1, an
\* ALIVE is sent only when every earlier one has had its reply consumed, and
\* the i-th reply consumed answers the i-th ALIVE.
C6_OneOutstanding ==
    /\ NumOf("ALIVE") - consumed \in {0, 1}
    /\ (ct_pc = "send" => NumOf("ALIVE") = consumed)
    /\ (consumed >= 1 => last_for = consumed)

\* C6 witness: two replies consumed and the third ALIVE awaiting its reply.
C6_Witness ==
    /\ consumed = 2 /\ last_for = 2
    /\ NumOf("ALIVE") = 3 /\ ct_pc = "recv"

C9_NonNegativeWindow ==
    last_cwnd # << >> => last_cwnd[1] >= 0

\* C10: send_traffic starts true, changes only from true to false, and only
\* in the step of signal_handler that stores false.
C10_FlagMonotone ==
    /\ send_traffic = TRUE
    /\ [][ (send_traffic' # send_traffic)
             => (/\ send_traffic /\ ~send_traffic'
                 /\ \E s \in Signals :
                        hpc[s] = "idle" /\ hpc'[s] = "close") ]_vars

\* C10 witness: the flag is false and both loops have read it and left.
C10_Witness ==
    ~send_traffic /\ ct_pc = "done" /\ dt_pc = "done"

\* C11: once a payload write has failed on the broken primary connection
\* while a control loop exists, the data loop has ended, the process is
\* running and send_traffic is still true.
C11_DataFailureLocal ==
    (broken /\ ct_pc # "notstarted") =>
        (dt_pc = "done" /\ proc = "running" /\ send_traffic)

\* C12: the value in the 2-byte header of every frame written equals the
\* byte length of the payload that follows it, every unix_recv_message
\* returns exactly the bytes of one payload, and the reader stays on the
\* message boundaries.
C12_Framing ==
    /\ \A i \in 1..Len(f_wire) : get_uint16(f_wire[i].header) = f_wire[i].len
    /\ \A i \in 1..Len(f_rcv) : f_rcv[i] = f_wire[i].len
    /\ f_left = 0
    /\ f_pc # "lost"

\* The control thread is between cycles: every cycle it started is complete.
BetweenCycles == ct_pc \in {"check", "sleep", "done"}

\* The log after n cycles that each assigned 10: the header and n lines.
SteadyLog(n) ==
    [i \in 1..(n + 1) |-> IF i = 1 THEN HeaderLine ELSE DataLine(10)]

\* C13: while every reply has been {"cwnd": 10}, set_tcp_cwnd has been
\* called once for every reply consumed and with the value 10, and after N
\* complete cycles it has been called N times and the log, if there is one
\* and it is open, holds the header line and N data lines ending in 10.
C13_SteadyState ==
    all_ten =>
        /\ applied = 1..consumed
        /\ (applied # {} => last_cwnd = << 10 >>)
        /\ BetweenCycles =>
               /\ applied = 1..cycle
               /\ (perf_log = "open" => log_file = SteadyLog(cycle))
               /\ (perf_log = "null" => log_file = << >>)

\* C13 witness: interval 20 ms, five complete cycles all answered with
\* {"cwnd": 10}, and the log holds six lines.
C13_Witness ==
    /\ all_ten /\ cycle = 5 /\ ct_pc = "sleep"
    /\ control_interval = DefaultInterval
    /\ applied = 1..5 /\ last_cwnd = << 10 >>
    /\ perf_log = "open" /\ Len(log_file) = 6

\* C14: with the log open, between cycles the log holds one data line for
\* every complete cycle, after the header line.
C14_OneLinePerCycle ==
    (perf_log = "open" /\ BetweenCycles) => Len(log_file) = 1 + cycle

\* C19: the control thread appends to the log only while it is open, and
\* the log is not closed while the control thread is inside the statement
\* that writes a line.
C19_NoWriteAfterClose ==
    [][ /\ (ct_pc = "logging" /\ log_file' # log_file) => perf_log = "open"
        /\ (perf_log = "open" /\ perf_log' # "open") => ct_pc # "logging"
      ]_vars

\* The steps of one run of signal_handler come in the order flag, log,
\* END, grace period, exit: a handler past a step has done it.
HandlerOrder ==
    /\ \A s \in Signals : hpc[s] # "idle" => ~send_traffic
    /\ \A s \in Signals :
           hpc[s] \in {"end", "grace", "exited"} => perf_log # "open"
    /\ \A s \in Signals :
           hpc[s] \in {"grace", "exited"} =>
               (NumOf("END") >= 1 <=> ipc_connected)
    /\ proc = "exit" => \E s \in Signals : hpc[s] = "exited"

\* C15: the shutdown steps come in the order flag, log, END (if and only
\* if the connection is open), grace period, exit, the process does not
\* exit on a signal before END is sent on an open connection, and END, as
\* each step, is done at most once.
C15_ShutdownOrder ==
    /\ HandlerOrder
    /\ NumOf("END") <= 1

\* The control loop runs, sends ALIVE and applies windows only after the
\* handshake: START was sent and its reply, with the flow identity, read.
ControlAfterHandshake ==
    /\ (ct_pc # "notstarted" \/ cycle > 0 \/ last_cwnd # << >>) =>
           (handshake # << >> /\ use_RL)
    /\ \A i \in 1..Len(sent) :
           sent[i].type = "ALIVE" =>
               /\ handshake # << >>
               /\ i > handshake[1].len
               /\ \E j \in 1..(i - 1) : sent[j].type = "START"

\* C16 as stated: the control loop starts only after the handshake, and
\* the first message sent is START.
C16_StartFirst ==
    /\ ControlAfterHandshake
    /\ (sent # << >> => sent[1].type = "START")

\* C16 amended: the control loop starts only after the handshake; START is
\* sent at most once and is then the first message; messages sent without
\* a START before them are END messages of signal_handler, and then no
\* START and no ALIVE is ever sent.
C16_StartBeforeControl ==
    /\ ControlAfterHandshake
    /\ \A i \in 1..Len(sent) : sent[i].type = "START" => i = 1
    /\ (sent # << >> /\ sent[1].type # "START") =>
           /\ \A i \in 1..Len(sent) : sent[i].type = "END"
           /\ \E s \in Signals : hthread[s] = "main"
           /\ main_pc = "start"

\* C16 witness: the handshake is done, START was the first message, and
\* the control loop has sent its second ALIVE.
C16_Witness ==
    /\ handshake # << >> /\ sent[1].type = "START"
    /\ ct_pc = "recv" /\ NumOf("ALIVE") = 2 /\ cycle = 2

\* C17: the value given to set_tcp_cwnd changes only in the control loop's
\* step that applies a reply, and every step of the data loop (flag poll,
\* payload write, exit) leaves the applied window, the Control Channel, the
\* performance log and send_traffic as they were.
C17_WindowOwnership ==
    [][ /\ (last_cwnd' # last_cwnd) => (ct_pc = "recv" /\ ct_pc' = "log")
        /\ (dt_pc # "notstarted" /\ (dt_pc' # dt_pc \/ broken' # broken)) =>
               UNCHANGED << last_cwnd, sent, inbox, perf_log, log_file,
                            send_traffic >>
      ]_vars

\* C17 witness: the data loop has polled, written and left, and meanwhile
\* the control loop has sent ALIVE, applied a window and logged it.
C17_Witness ==
    /\ dt_pc = "done" /\ last_cwnd = << 10 >>
    /\ NumOf("ALIVE") >= 1 /\ Len(log_file) >= 2

\* C18: no ALIVE is sent after an END.
C18_EndIsLast ==
    \A i, j \in 1..Len(sent) :
        (i < j /\ sent[i].type = "END") => sent[j].type # "ALIVE"

\* C20 as stated: main calls ct.join() only on a started control thread,
\* and in no-RL mode, once the data loop has exited, main completes: when
\* the process has ended, main was past its joins.
C20_MainCompletes ==
    /\ main_pc = "join_ct" => ct_pc # "notstarted"
    /\ (NoRL /\ dt_pc = "done" /\ proc = "exit") =>
           main_pc \notin {"join_dt", "join_ct"}

\* C20 amended: main calls ct.join() only on a started control thread and
\* never ends the process by a join; in no-RL mode main never calls
\* ct.join(): when the data loop has exited, main is the thread the signal
\* handler runs on, and it stays in dt.join().
C20_JoinSafety ==
    /\ main_pc = "join_ct" => (ct_pc # "notstarted" /\ proc # "abort")
    /\ NoRL => main_pc # "join_ct"
    /\ (NoRL /\ dt_pc = "done") =>
           (Interrupted("main") /\ main_pc = "join_dt")

\* C20 witness: with a control thread started, the data loop has exited and
\* main has called ct.join().
C20_Witness ==
    /\ main_pc = "join_ct" /\ dt_pc = "done"
    /\ ct_pc \notin {"notstarted", "done"}
    /\ Interrupted("ct")

====
